---------------------------- MODULE Spec2Model ----------------------------
(***************************************************************************)
(* A model of the TinyLisp interpreter (interpreter.c, version 0.0.0.0.8): *)
(* the lval value representation, the arithmetic reduction builtin_op, the *)
(* list builtins, the environment lenv and the evaluator lval_eval /       *)
(* lval_eval_sexpr / lval_call.                                            *)
(*                                                                         *)
(* Numbers.  A C long is a TLA+ integer in -MaxTracked..MaxTracked, or     *)
(* LUntracked: a 64-bit pattern outside that range whose value the model   *)
(* does not follow.  A C double is a rational <<n, d>> in lowest terms     *)
(* with d > 0, or FUntracked: a double (an infinity, a NaN, an irrational  *)
(* power, the conversion of an untracked long) whose value the model does  *)
(* not follow.  The sign of a floating zero is not modelled.               *)
(*                                                                         *)
(* Undefined behaviour.  Every operator whose C code reads memory it must  *)
(* not read, or executes an integer operation C leaves undefined, takes an *)
(* argument ub that fixes the outcome; the actions choose ub freely in UB. *)
(***************************************************************************)
EXTENDS Integers, Sequences, FiniteSets, TLC

VARIABLES
    fn,     \* the function being called: a builtin's name, or the closure
    args,   \* the cells of its argument list
    ret,    \* the lval it returned (NoVal before the call, a Fault if it never returned)
    envs,   \* the environment chain: envs[1] is the global environment
    aux     \* what the scenario has recorded of earlier calls

vars == <<fn, args, ret, envs, aux>>

\* Largest magnitude of a long whose value the model follows.
MaxTracked == 40000
\* Integer literals of the inputs range over -MaxInt..MaxInt.
MaxInt == 2
\* Longest argument list handed to an arithmetic builtin.
MaxArgs == 3

---------------------------------------------------------------------------
(* C long and C double *)

LUntracked == MaxTracked + 1

Tracked(n) == n # LUntracked

TrackLong(n) == IF n > MaxTracked \/ n < -MaxTracked THEN LUntracked ELSE n

Abs(n) == IF n < 0 THEN -n ELSE n

Sign(n) == IF n < 0 THEN -1 ELSE IF n > 0 THEN 1 ELSE 0

RECURSIVE Gcd(_, _)
Gcd(m, n) == IF n = 0 THEN m ELSE Gcd(n, m % n)

FUntracked == <<0, 0>>

FTracked(r) == r[2] > 0

\* The double nearest n/d, d # 0; untracked once a component leaves the range.
Rat(n, d) ==
    LET g == Gcd(Abs(n), Abs(d))
        nn == Sign(d) * (n \div g)
        dd == Abs(d) \div g
    IN  IF Abs(nn) > MaxTracked \/ dd > MaxTracked THEN FUntracked
        ELSE <<nn, dd>>

FZero == <<0, 1>>

\* (double)x->num
DoubleOfLong(n) == IF Tracked(n) THEN <<n, 1>> ELSE FUntracked

\* x->num read from a union whose dnum member was written last: the bits of r
LongOfBits(r) == IF r = FZero THEN 0 ELSE LUntracked

\* Division rounding toward minus infinity instead of toward zero.
TruncDivWrong(x, y) == x \div y

\* C's integer division and remainder truncate toward zero; y # 0
TruncDiv(x, y) == Sign(x) * Sign(y) * (Abs(x) \div Abs(y))

TruncRem(x, y) == x - y * TruncDiv(x, y)

\* trunc(n/d) of a tracked double
FTrunc(r) == TruncDiv(r[1], r[2])

FAdd(p, q) ==
    IF ~FTracked(p) \/ ~FTracked(q) THEN FUntracked
    ELSE Rat(p[1] * q[2] + q[1] * p[2], p[2] * q[2])

FNeg(p) == IF FTracked(p) THEN <<-p[1], p[2]>> ELSE FUntracked

FSub(p, q) == FAdd(p, FNeg(q))

FMul(p, q) ==
    IF ~FTracked(p) \/ ~FTracked(q) THEN FUntracked
    ELSE Rat(p[1] * q[1], p[2] * q[2])

\* op1 / op2: a zero divisor gives an infinity or a NaN
FDiv(p, q) ==
    IF ~FTracked(p) \/ ~FTracked(q) \/ q[1] = 0 THEN FUntracked
    ELSE Rat(p[1] * q[2], p[2] * q[1])

\* fmod(op1, op2) = op1 - op2 * trunc(op1 / op2); fmod(x, 0) is a NaN
FMod(p, q) ==
    IF ~FTracked(p) \/ ~FTracked(q) \/ q[1] = 0 THEN FUntracked
    ELSE LET k == FDiv(p, q)
         IN  IF ~FTracked(k) THEN FUntracked
             ELSE FSub(p, FMul(q, <<FTrunc(k), 1>>))

RECURSIVE FPowNat(_, _)
FPowNat(p, e) == IF e = 0 THEN <<1, 1>> ELSE FMul(p, FPowNat(p, e - 1))

\* pow(op1, op2): followed for an integral exponent only
FPow(p, q) ==
    IF ~FTracked(p) \/ ~FTracked(q) \/ q[2] # 1 THEN FUntracked
    ELSE IF q[1] >= 0 THEN FPowNat(p, q[1])
    ELSE IF p[1] = 0 THEN FUntracked
    ELSE FDiv(<<1, 1>>, FPowNat(p, -q[1]))

\* op1 > op2; false when either side is not followed (as for a NaN)
FGt(p, q) == FTracked(p) /\ FTracked(q) /\ p[1] * q[2] > q[1] * p[2]

---------------------------------------------------------------------------
(* lval: the constructors *)

lval_num(x) == [type |-> "NUM", num |-> x]

lval_float(x) == [type |-> "FLOAT", dnum |-> x]

lval_err(m) == [type |-> "ERR", err |-> m]

lval_sym(s) == [type |-> "SYM", sym |-> s]

lval_sexpr == [type |-> "SEXPR", cell |-> <<>>]

lval_qexpr == [type |-> "QEXPR", cell |-> <<>>]

lval_fun(func) == [type |-> "FUN", builtin |-> func]

\* The process ended abnormally (a signal) instead of returning an lval.
Fault(why) == [type |-> "FAULT", why |-> why]

IsFault(v) == v.type = "FAULT"

\* No value: a step that has not run.
NoVal == [type |-> "NONE"]


---------------------------------------------------------------------------
(* builtin_op: the arithmetic builtins + - * / % ^ min max *)

Ops == {"+", "-", "*", "/", "%", "^", "min", "max"}

\* What the build makes of an integer remainder by zero: a trap (SIGFPE),
\* or, where the divide instruction does not trap, the dividend.
ModZeroOutcomes == {"trap", "dividend"}

\* What a read of a->count finds after lval_take has freed a: the value it
\* held (0), or whatever the allocator or a later allocation left there.
StaleCounts == {0, 1, 2, 3}

LAdd(x, y) == IF Tracked(x) /\ Tracked(y) THEN TrackLong(x + y) ELSE LUntracked

LSub(x, y) == IF Tracked(x) /\ Tracked(y) THEN TrackLong(x - y) ELSE LUntracked

LMul(x, y) ==
    IF x = 0 \/ y = 0 THEN 0
    ELSE IF Tracked(x) /\ Tracked(y) THEN TrackLong(x * y) ELSE LUntracked

\* x->num /= y->num, y->num # 0
LDiv(x, y) ==
    IF Tracked(x) /\ Tracked(y) THEN TruncDiv(x, y) ELSE LUntracked

LRem(x, y) ==
    IF Tracked(x) /\ Tracked(y) THEN TruncRem(x, y) ELSE LUntracked

LGt(x, y) == Tracked(x) /\ Tracked(y) /\ x > y

\* The loop with base *= base left out.
RECURSIVE ipow_loop_nosquare(_, _, _)
ipow_loop_nosquare(res, base, exp) ==
    IF exp > 0
    THEN ipow_loop_nosquare(IF exp % 2 = 1 THEN LMul(res, base) ELSE res,
                            base, exp \div 2)
    ELSE res

RECURSIVE ipow_loop(_, _, _)
ipow_loop(res, base, exp) ==
    IF exp > 0
    THEN ipow_loop(IF exp % 2 = 1 THEN LMul(res, base) ELSE res,
                   LMul(base, base), exp \div 2)
    ELSE res

\* long ipow(long base, int exp): a tracked exponent fits an int
ipow(base, exp) ==
    IF Tracked(exp) THEN ipow_loop(1, base, exp) ELSE LUntracked

\* The floating branch: the value stored to x->dnum
OpDouble(op, op1, op2) ==
    CASE op = "+" -> FAdd(op1, op2)
      [] op = "-" -> FSub(op1, op2)
      [] op = "*" -> FMul(op1, op2)
      [] op = "/" -> FDiv(op1, op2)
      [] op = "%" -> FMod(op1, op2)
      [] op = "^" -> FPow(op1, op2)
      [] op = "min" -> IF FGt(op1, op2) THEN op2 ELSE op1
      [] op = "max" -> IF FGt(op1, op2) THEN op1 ELSE op2

\* "/" with the zero test left out: the division traps.
OpLongDivNoCheck(x, y) ==
    IF y = 0 THEN Fault("SIGFPE") ELSE lval_num(LDiv(x, y))

\* "/" on two longs: the zero test, then x->num /= y->num
OpLongDiv(x, y) ==
    IF y = 0 THEN lval_err("Division By Zero!") ELSE lval_num(LDiv(x, y))

\* "%" on two longs: x->num % y->num, no test of y->num
OpLongMod(x, y, ub) ==
    IF y = 0
    THEN IF ub.modzero = "trap" THEN Fault("SIGFPE") ELSE lval_num(x)
    ELSE lval_num(LRem(x, y))

\* The integer branch: the new x, an Error (the loop breaks) or a fault
OpLong(op, x, y, ub) ==
    CASE op = "+" -> lval_num(LAdd(x, y))
      [] op = "-" -> lval_num(LSub(x, y))
      [] op = "*" -> lval_num(LMul(x, y))
      [] op = "/" -> OpLongDiv(x, y)
      [] op = "%" -> OpLongMod(x, y, ub)
      [] op = "^" -> lval_num(ipow(x, y))
      [] op = "min" -> lval_num(IF LGt(x, y) THEN y ELSE x)
      [] op = "max" -> lval_num(IF LGt(x, y) THEN x ELSE y)

IsNumber(v) == v.type = "NUM" \/ v.type = "FLOAT"

\* The store x->dnum = d: the union is written, x->type is left as it was,
\* so an Integer-tagged x now reads the bits of d as its num.
StoreDouble(x, d) ==
    IF x.type = "FLOAT" THEN lval_float(d) ELSE lval_num(LongOfBits(d))

\* One pass of the while loop on x and the popped y
OpStep(op, x, y, ub) ==
    IF x.type = "FLOAT" \/ y.type = "FLOAT"
    THEN LET op1 == IF x.type = "FLOAT" THEN x.dnum ELSE DoubleOfLong(x.num)
             op2 == IF y.type = "FLOAT" THEN y.dnum ELSE DoubleOfLong(y.num)
         IN  StoreDouble(x, OpDouble(op, op1, op2))
    ELSE OpLong(op, x.num, y.num, ub)

\* while (a->count > 0): the break on an Error, the end of the process on a fault
RECURSIVE OpLoop(_, _, _, _)
OpLoop(op, x, a, ub) ==
    IF a = <<>> THEN x
    ELSE LET r == OpStep(op, x, Head(a), ub)
         IN  IF IsNumber(r) THEN OpLoop(op, r, Tail(a), ub) ELSE r

\* Unary negation of the single operand of "-"
Negate(x) ==
    IF x.type = "NUM"
    THEN lval_num(IF Tracked(x.num) THEN -x.num ELSE LUntracked)
    ELSE lval_float(FNeg(x.dnum))

\* builtin_op(e, a, op) on the cells a (at least one); e is not used
builtin_op(a, op, ub) ==
    IF \E i \in 1..Len(a) : ~IsNumber(a[i])
    THEN lval_err("Cannot operate on non-number!")
    ELSE IF op = "-" /\ Len(a) = 1 THEN Negate(a[1])
    ELSE OpLoop(op, a[1], Tail(a), ub)


---------------------------------------------------------------------------
(* lval: pop, take, add, copy; lenv: new, copy, get, put, def *)

\* A closure: lval_lambda(formals, body) builds a fresh environment
lenv_new == [par |-> 0, syms |-> <<>>, vals |-> <<>>]

lval_lambda(formals, body) ==
    [type |-> "FUN", builtin |-> "NULL", env |-> lenv_new,
     formals |-> formals, body |-> body]

IsList(v) == v.type = "SEXPR" \/ v.type = "QEXPR"

IsBuiltin(v) == v.type = "FUN" /\ v.builtin # "NULL"

IsLambda(v) == v.type = "FUN" /\ v.builtin = "NULL"

ltype_name(t) ==
    CASE t = "FUN" -> "Function"
      [] t = "NUM" -> "Number"
      [] t = "ERR" -> "Error"
      [] t = "SYM" -> "Symbol"
      [] t = "SEXPR" -> "S-Expression"
      [] t = "QEXPR" -> "Q-Expression"
      [] OTHER -> "Unknown"

\* The cells of v without the one at C index i (0-based), 0 <= i < count
RemoveAt(cell, i) ==
    [j \in 1..(Len(cell) - 1) |-> IF j <= i THEN cell[j] ELSE cell[j + 1]]

\* lval_pop(v, i): the element at index i; the container keeps PopRest
PopElem(v, i) == v.cell[i + 1]

PopRest(v, i) == [v EXCEPT !.cell = RemoveAt(v.cell, i)]

\* lval_take(v, i): pop, then the container is destroyed
lval_take(v, i) == PopElem(v, i)

lval_add(v, x) == [v EXCEPT !.cell = Append(v.cell, x)]

\* lval_copy has no case for LVAL_FLOAT: the copy is tagged Float and its
\* dnum is whatever malloc returned.
CopyFloat(v, ub) == lval_float(ub.garbage)

RECURSIVE lval_copy(_, _)
RECURSIVE lenv_copy(_, _)

lval_copy(v, ub) ==
    CASE v.type = "FLOAT" -> CopyFloat(v, ub)
      [] IsLambda(v) ->
            [v EXCEPT !.env = lenv_copy(v.env, ub),
                      !.formals = lval_copy(v.formals, ub),
                      !.body = lval_copy(v.body, ub)]
      [] IsList(v) ->
            [v EXCEPT !.cell = [j \in 1..Len(v.cell) |-> lval_copy(v.cell[j], ub)]]
      [] OTHER -> v

\* n->par = e->par, and a deep copy of every binding
lenv_copy(e, ub) ==
    [e EXCEPT !.vals = [j \in 1..Len(e.vals) |-> lval_copy(e.vals[j], ub)]]

\* The index of the binding of name in e, 0 when there is none
Lookup(e, name) ==
    IF \E j \in 1..Len(e.syms) : e.syms[j] = name
    THEN CHOOSE j \in 1..Len(e.syms) :
             /\ e.syms[j] = name
             /\ \A h \in 1..(j - 1) : e.syms[h] # name
    ELSE 0

\* lenv_put(e, k, v): replace the binding of k->sym or append one; a copy of v
lenv_put(e, name, v, ub) ==
    LET j == Lookup(e, name)
        c == lval_copy(v, ub)
    IN  IF j # 0 THEN [e EXCEPT !.vals[j] = c]
        ELSE [e EXCEPT !.syms = Append(e.syms, name), !.vals = Append(e.vals, c)]

\* The environments in use form a chain es[1] (the global one), ..., and
\* par is an index into it (0: no parent).
\* A lookup that stops at es[i] and never asks the parent.
lenv_get_local(es, i, name, ub) ==
    LET e == es[i]
        j == Lookup(e, name)
    IN  IF j # 0 THEN lval_copy(e.vals[j], ub)
        ELSE lval_err("Unbound Symbol '" \o name \o "'")

\* lenv_get(e, k) from es[i]
RECURSIVE lenv_get(_, _, _, _)
lenv_get(es, i, name, ub) ==
    LET e == es[i]
        j == Lookup(e, name)
    IN  IF j # 0 THEN lval_copy(e.vals[j], ub)
        ELSE IF e.par # 0 THEN lenv_get(es, e.par, name, ub)
        ELSE lval_err("Unbound Symbol '" \o name \o "'")

\* while (e->par) { e = e->par; }
RECURSIVE RootOf(_, _)
RootOf(es, i) == IF es[i].par # 0 THEN RootOf(es, es[i].par) ELSE i

\* lenv_def(e, k, v) from es[i]: the chain after the put in its root
lenv_def(es, i, name, v, ub) ==
    LET r == RootOf(es, i)
    IN  [es EXCEPT ![r] = lenv_put(es[r], name, v, ub)]

BuiltinNames ==
    <<"list", "head", "tail", "eval", "join", "cons", "len", "init",
      "\\", "def", "=", "+", "-", "*", "/", "%", "^", "min", "max">>

\* lenv_add_builtins(lenv_new()): no Float is copied, so no ub is needed
RECURSIVE AddBuiltins(_, _)
AddBuiltins(e, names) ==
    IF names = <<>> THEN e
    ELSE AddBuiltins([e EXCEPT !.syms = Append(e.syms, Head(names)),
                               !.vals = Append(e.vals, lval_fun(Head(names)))],
                     Tail(names))

GlobalEnv == AddBuiltins(lenv_new, BuiltinNames)

---------------------------------------------------------------------------
(* The list builtins on the cells a of their argument list (one at least) *)

builtin_head(a) ==
    IF Len(a) # 1 THEN lval_err("Function 'head' passed too many arguments!")
    ELSE IF a[1].type # "QEXPR" THEN lval_err("Function 'head' passed incorrect type!")
    ELSE IF Len(a[1].cell) = 0 THEN lval_err("Function 'head' passed {}!")
    ELSE [a[1] EXCEPT !.cell = <<a[1].cell[1]>>]

\* tail that drops the last element along with the first.
builtin_tail_short(a) ==
    IF Len(a) # 1 THEN lval_err("Function 'tail' passed too many arguments!")
    ELSE IF a[1].type # "QEXPR" THEN lval_err("Function 'tail' passed incorrect type!")
    ELSE IF Len(a[1].cell) = 0 THEN lval_err("Function 'tail' passed {}!")
    ELSE [a[1] EXCEPT !.cell = SubSeq(@, 2, Len(@) - 1)]

builtin_tail(a) ==
    IF Len(a) # 1 THEN lval_err("Function 'tail' passed too many arguments!")
    ELSE IF a[1].type # "QEXPR" THEN lval_err("Function 'tail' passed incorrect type!")
    ELSE IF Len(a[1].cell) = 0 THEN lval_err("Function 'tail' passed {}!")
    ELSE PopRest(lval_take([type |-> "SEXPR", cell |-> a], 0), 0)

builtin_list(a) == [type |-> "QEXPR", cell |-> a]

\* The cells of y put before those of x.
lval_join_before(x, y) == [x EXCEPT !.cell = y.cell \o x.cell]

RECURSIVE lval_join(_, _)
lval_join(x, y) ==
    IF Len(y.cell) = 0 THEN x
    ELSE lval_join(lval_add(x, PopElem(y, 0)), PopRest(y, 0))

RECURSIVE JoinLoop(_, _)
JoinLoop(x, a) ==
    IF Len(a) = 0 THEN x ELSE JoinLoop(lval_join(x, Head(a)), Tail(a))

builtin_join(a) ==
    IF \E j \in 1..Len(a) : a[j].type # "QEXPR"
    THEN lval_err("Function 'join' passed incorrect type.")
    ELSE JoinLoop(a[1], Tail(a))

\* lval_pop(v, a->count-1) after lval_take(a, 0) has freed a: the index is
\* read from freed memory.
InitIndex(v, ub) == ub.stale - 1

\* init without the test for {}.
builtin_init_unguarded(a, ub) ==
    IF Len(a) # 1 THEN lval_err("Function 'init' passed too many arguments!")
    ELSE IF a[1].type # "QEXPR" THEN lval_err("Function 'init' passed incorrect type!")
    ELSE LET v == lval_take([type |-> "SEXPR", cell |-> a], 0)
             i == InitIndex(v, ub)
         IN  IF i >= 0 /\ i < Len(v.cell) THEN PopRest(v, i)
             ELSE Fault("SIGSEGV")

builtin_init(a, ub) ==
    IF Len(a) # 1 THEN lval_err("Function 'init' passed too many arguments!")
    ELSE IF a[1].type # "QEXPR" THEN lval_err("Function 'init' passed incorrect type!")
    ELSE IF Len(a[1].cell) = 0 THEN lval_err("Function 'init' passed {}!")
    ELSE LET v == lval_take([type |-> "SEXPR", cell |-> a], 0)
             i == InitIndex(v, ub)
         IN  IF i >= 0 /\ i < Len(v.cell) THEN PopRest(v, i)
             ELSE Fault("SIGSEGV")

\* len testing for one argument at least instead of exactly one.
builtin_len_atleast(a) ==
    IF Len(a) < 1 THEN lval_err("Function 'len' passed too many arguments!")
    ELSE IF a[1].type # "QEXPR" THEN lval_err("Function 'len' passed incorrect type!")
    ELSE IF Len(a[1].cell) = 0 THEN lval_err("Function 'len' passed {}!")
    ELSE lval_num(Len(a[1].cell))

builtin_len(a) ==
    IF Len(a) # 1 THEN lval_err("Function 'len' passed too many arguments!")
    ELSE IF a[1].type # "QEXPR" THEN lval_err("Function 'len' passed incorrect type!")
    ELSE IF Len(a[1].cell) = 0 THEN lval_err("Function 'len' passed {}!")
    ELSE lval_num(Len(lval_take([type |-> "SEXPR", cell |-> a], 0).cell))

\* cons putting the value after the elements of the list.
builtin_cons_append(a) ==
    IF Len(a) # 2 THEN lval_err("Function 'cons' passed wrong number of arguments!")
    ELSE IF a[2].type # "QEXPR"
    THEN lval_err("Function 'cons' passed incorrect type for second argument!")
    ELSE [a[2] EXCEPT !.cell = a[2].cell \o <<a[1]>>]

builtin_cons(a) ==
    IF Len(a) # 2 THEN lval_err("Function 'cons' passed wrong number of arguments!")
    ELSE IF a[2].type # "QEXPR"
    THEN lval_err("Function 'cons' passed incorrect type for second argument!")
    ELSE [a[2] EXCEPT !.cell = <<a[1]>> \o a[2].cell]

\* LASSERT_NUM and LASSERT_TYPE: the Error they return
NumError(func, got, num) ==
    lval_err("Function '" \o func \o "' passed incorrect number of arguments. Got "
             \o ToString(got) \o ", Expected " \o ToString(num) \o ".")

TypeError(func, index, got, expect) ==
    lval_err("Function '" \o func \o "' passed incorrect type for argument "
             \o ToString(index) \o ". Got " \o ltype_name(got) \o ", Expected "
             \o ltype_name(expect) \o ".")

\* lambda without the test that the formals are Symbols.
builtin_lambda_unchecked(a) ==
    IF Len(a) # 2 THEN NumError("\\", Len(a), 2)
    ELSE IF a[1].type # "QEXPR" THEN TypeError("\\", 0, a[1].type, "QEXPR")
    ELSE IF a[2].type # "QEXPR" THEN TypeError("\\", 1, a[2].type, "QEXPR")
    ELSE lval_lambda(a[1], a[2])

builtin_lambda(a) ==
    IF Len(a) # 2 THEN NumError("\\", Len(a), 2)
    ELSE IF a[1].type # "QEXPR" THEN TypeError("\\", 0, a[1].type, "QEXPR")
    ELSE IF a[2].type # "QEXPR" THEN TypeError("\\", 1, a[2].type, "QEXPR")
    ELSE IF \E j \in 1..Len(a[1].cell) : a[1].cell[j].type # "SYM"
    THEN LET j == CHOOSE j \in 1..Len(a[1].cell) :
                      /\ a[1].cell[j].type # "SYM"
                      /\ \A h \in 1..(j - 1) : a[1].cell[h].type = "SYM"
         IN  lval_err("Cannot define non-symbol. Got " \o ltype_name(a[1].cell[j].type)
                      \o ", Expected " \o ltype_name("SYM") \o ".")
    ELSE lval_lambda(a[1], a[2])

\* An evaluation step gives a value and the environment chain it leaves
R(v, es) == [val |-> v, envs |-> es]

\* The loop with every symbol bound in the root environment, "=" as "def".
RECURSIVE VarLoopAllDef(_, _, _, _, _, _)
VarLoopAllDef(es, i, a, func, j, ub) ==
    IF j > Len(a[1].cell) THEN es
    ELSE VarLoopAllDef(lenv_def(es, i, a[1].cell[j].sym, a[j + 1], ub),
                       i, a, func, j + 1, ub)

\* The loop of builtin_var: symbol j is bound to value j, in order
RECURSIVE VarLoop(_, _, _, _, _, _)
VarLoop(es, i, a, func, j, ub) ==
    IF j > Len(a[1].cell) THEN es
    ELSE VarLoop(IF func = "def"
                 THEN lenv_def(es, i, a[1].cell[j].sym, a[j + 1], ub)
                 ELSE [es EXCEPT ![i] = lenv_put(es[i], a[1].cell[j].sym, a[j + 1], ub)],
                 i, a, func, j + 1, ub)

\* builtin_var(e, a, func), func "def" or "=", e = es[i]
builtin_var(es, i, a, func, ub) ==
    IF a[1].type # "QEXPR" THEN R(TypeError(func, 0, a[1].type, "QEXPR"), es)
    ELSE IF \E j \in 1..Len(a[1].cell) : a[1].cell[j].type # "SYM"
    THEN LET j == CHOOSE j \in 1..Len(a[1].cell) :
                      /\ a[1].cell[j].type # "SYM"
                      /\ \A h \in 1..(j - 1) : a[1].cell[h].type = "SYM"
         IN  R(lval_err("Function '" \o func \o "' cannot define non-symbol. Got "
                        \o ltype_name(a[1].cell[j].type) \o ", Expected "
                        \o ltype_name("SYM") \o "."), es)
    ELSE IF Len(a[1].cell) # Len(a) - 1
    THEN R(lval_err("Function '" \o func \o "' passed too many arguments for symbols. Got "
                    \o ToString(Len(a[1].cell)) \o ", Expected "
                    \o ToString(Len(a) - 1) \o "."), es)
    ELSE R(lval_sexpr, VarLoop(es, i, a, func, 1, ub))

---------------------------------------------------------------------------
(* The evaluator: lval_eval, lval_eval_sexpr, lval_call, builtin_eval.     *)
(* e is es[i]; d bounds the depth of nested lval_eval_sexpr calls: the   *)
(* C stack is finite and a recursion deeper than it ends the process.      *)

\* Deepest nesting of lval_eval_sexpr calls the model follows.
MaxDepth == 12

TooManyError(given, total) ==
    lval_err("Function passed too many arguments. Got " \o ToString(given)
             \o ", Expected " \o ToString(total) \o ".")

FormatError ==
    lval_err("Function format invalid. Symbol '&' not followed by single symbol.")

\* Pop the first formal and bind it to a copy of val in f->env
BindOne(f, val, ub) ==
    [f EXCEPT !.formals = PopRest(f.formals, 0),
              !.env = lenv_put(f.env, f.formals.cell[1].sym, val, ub)]

\* '&' popped, the symbol after it bound to the remaining arguments as a QExpr
BindRest(f, a, ub) ==
    [f EXCEPT !.formals = PopRest(PopRest(f.formals, 0), 0),
              !.env = lenv_put(f.env, f.formals.cell[2].sym, builtin_list(a), ub)]

\* The loop stopping without an Error when the formals run out first.
RECURSIVE BindLoopIgnoreExtra(_, _, _, _, _)
BindLoopIgnoreExtra(f, a, given, total, ub) ==
    IF Len(a) = 0 \/ Len(f.formals.cell) = 0 THEN [f |-> f, err |-> NoVal]
    ELSE IF f.formals.cell[1].sym = "&"
    THEN IF Len(f.formals.cell) - 1 # 1 THEN [f |-> f, err |-> FormatError]
         ELSE [f |-> BindRest(f, a, ub), err |-> NoVal]
    ELSE BindLoopIgnoreExtra(BindOne(f, Head(a), ub), Tail(a), given, total, ub)

\* while (a->count): the closure after the loop, or the Error it returned
RECURSIVE BindLoop(_, _, _, _, _)
BindLoop(f, a, given, total, ub) ==
    IF Len(a) = 0 THEN [f |-> f, err |-> NoVal]
    ELSE IF Len(f.formals.cell) = 0 THEN [f |-> f, err |-> TooManyError(given, total)]
    ELSE IF f.formals.cell[1].sym = "&"
    THEN IF Len(f.formals.cell) - 1 # 1 THEN [f |-> f, err |-> FormatError]
         ELSE [f |-> BindRest(f, a, ub), err |-> NoVal]
    ELSE BindLoop(BindOne(f, Head(a), ub), Tail(a), given, total, ub)

\* No handling of a '&' that remains after the loop.
BindEmptyRestSkip(f, ub) == [f |-> f, err |-> NoVal]

\* After the loop: a remaining '&' and its symbol are bound to an empty list
BindEmptyRest(f, ub) ==
    IF Len(f.formals.cell) > 0 /\ f.formals.cell[1].sym = "&"
    THEN IF Len(f.formals.cell) # 2 THEN [f |-> f, err |-> FormatError]
         ELSE [f |-> BindRest(f, <<>>, ub), err |-> NoVal]
    ELSE [f |-> f, err |-> NoVal]

IsArith(name) == name \in Ops

RECURSIVE lval_eval(_, _, _, _, _)
RECURSIVE lval_eval_sexpr(_, _, _, _, _)
RECURSIVE EvalCells(_, _, _, _, _, _)
RECURSIVE lval_call(_, _, _, _, _, _)
RECURSIVE builtin_eval(_, _, _, _, _)
RECURSIVE CallBuiltin(_, _, _, _, _, _)

lval_eval(es, i, v, d, ub) ==
    CASE v.type = "SYM" -> R(lenv_get(es, i, v.sym, ub), es)
      [] v.type = "SEXPR" -> lval_eval_sexpr(es, i, v, d, ub)
      [] OTHER -> R(v, es)

\* The loop over the children left at the first child that gives an Error.
EvalCellsUntilError(es, i, done, todo, d, ub) ==
    IF Len(todo) = 0 THEN [cell |-> done, envs |-> es, fault |-> NoVal]
    ELSE LET r == lval_eval(es, i, Head(todo), d, ub)
         IN  IF IsFault(r.val) THEN [cell |-> done, envs |-> r.envs, fault |-> r.val]
             ELSE IF r.val.type = "ERR"
             THEN [cell |-> Append(done, r.val), envs |-> r.envs, fault |-> NoVal]
             ELSE EvalCells(r.envs, i, Append(done, r.val), Tail(todo), d, ub)

\* for (i ...) v->cell[i] = lval_eval(e, v->cell[i]): every child, in order
EvalCells(es, i, done, todo, d, ub) ==
    IF Len(todo) = 0 THEN [cell |-> done, envs |-> es, fault |-> NoVal]
    ELSE LET r == lval_eval(es, i, Head(todo), d, ub)
         IN  IF IsFault(r.val) THEN [cell |-> done, envs |-> r.envs, fault |-> r.val]
             ELSE EvalCells(r.envs, i, Append(done, r.val), Tail(todo), d, ub)

\* The kind of the first child tested before the children are scanned for
\* an Error.
lval_eval_sexpr_typefirst(es, i, v, d, ub) ==
    IF d = 0 THEN R(Fault("stack overflow"), es)
    ELSE
    LET ev == EvalCells(es, i, <<>>, v.cell, d - 1, ub)
        c == ev.cell
    IN  IF ev.fault # NoVal THEN R(ev.fault, ev.envs)
        ELSE IF Len(c) = 0 THEN R([v EXCEPT !.cell = c], ev.envs)
        ELSE IF Len(c) > 1 /\ c[1].type \notin {"FUN", "ERR"}
        THEN R(lval_err("S-Expression starts with incorrect type. Got "
                        \o ltype_name(c[1].type) \o ", Expected "
                        \o ltype_name("FUN") \o "."), ev.envs)
        ELSE IF \E j \in 1..Len(c) : c[j].type = "ERR"
        THEN R(c[CHOOSE j \in 1..Len(c) :
                     /\ c[j].type = "ERR"
                     /\ \A h \in 1..(j - 1) : c[h].type # "ERR"], ev.envs)
        ELSE IF Len(c) = 1 THEN R(c[1], ev.envs)
        ELSE lval_call(ev.envs, i, c[1], Tail(c), d - 1, ub)

\* A single child that is a Function called on no arguments.
lval_eval_sexpr_callsingle(es, i, v, d, ub) ==
    IF d = 0 THEN R(Fault("stack overflow"), es)
    ELSE
    LET ev == EvalCells(es, i, <<>>, v.cell, d - 1, ub)
        c == ev.cell
    IN  IF ev.fault # NoVal THEN R(ev.fault, ev.envs)
        ELSE IF \E j \in 1..Len(c) : c[j].type = "ERR"
        THEN R(c[CHOOSE j \in 1..Len(c) :
                     /\ c[j].type = "ERR"
                     /\ \A h \in 1..(j - 1) : c[h].type # "ERR"], ev.envs)
        ELSE IF Len(c) = 0 THEN R([v EXCEPT !.cell = c], ev.envs)
        ELSE IF c[1].type # "FUN"
        THEN IF Len(c) = 1 THEN R(c[1], ev.envs)
             ELSE R(lval_err("S-Expression starts with incorrect type. Got "
                             \o ltype_name(c[1].type) \o ", Expected "
                             \o ltype_name("FUN") \o "."), ev.envs)
        ELSE lval_call(ev.envs, i, c[1], Tail(c), d - 1, ub)

lval_eval_sexpr(es, i, v, d, ub) ==
    IF d = 0 THEN R(Fault("stack overflow"), es)
    ELSE
    LET ev == EvalCells(es, i, <<>>, v.cell, d - 1, ub)
        c == ev.cell
    IN  IF ev.fault # NoVal THEN R(ev.fault, ev.envs)
        ELSE IF \E j \in 1..Len(c) : c[j].type = "ERR"
        THEN R(c[CHOOSE j \in 1..Len(c) :
                     /\ c[j].type = "ERR"
                     /\ \A h \in 1..(j - 1) : c[h].type # "ERR"], ev.envs)
        ELSE IF Len(c) = 0 THEN R([v EXCEPT !.cell = c], ev.envs)
        ELSE IF Len(c) = 1 THEN R(c[1], ev.envs)
        ELSE IF c[1].type # "FUN"
        THEN R(lval_err("S-Expression starts with incorrect type. Got "
                        \o ltype_name(c[1].type) \o ", Expected "
                        \o ltype_name("FUN") \o "."), ev.envs)
        ELSE lval_call(ev.envs, i, c[1], Tail(c), d - 1, ub)

\* The parent of f->env is left at the global environment, whoever calls.
CallEnvGlobal(f, i) == [f.env EXCEPT !.par = 1]

\* f->env->par = e: the closure's environment, its parent the caller's es[i]
CallEnv(f, i) == [f.env EXCEPT !.par = i]

\* The call works on the closure the global environment holds, not on a
\* copy of it: a partial call leaves its bindings in the stored closure.
lval_call_inplace(es, i, f, a, d, ub) ==
    IF IsBuiltin(f) THEN CallBuiltin(f.builtin, es, i, a, d, ub)
    ELSE
    LET b == BindLoop(f, a, Len(a), Len(f.formals.cell), ub)
        t == IF b.err = NoVal THEN BindEmptyRest(b.f, ub) ELSE b
    IN  IF t.err # NoVal THEN R(t.err, es)
        ELSE IF Len(t.f.formals.cell) = 0
        THEN LET fenv == CallEnv(t.f, i)
                 r == builtin_eval(Append(es, fenv), Len(es) + 1,
                                   <<lval_copy(t.f.body, ub)>>, d, ub)
             IN  R(r.val, SubSeq(r.envs, 1, Len(es)))
        ELSE LET g == es[1]
                 stored == [j \in 1..Len(g.vals) |->
                               IF g.vals[j] = f THEN t.f ELSE g.vals[j]]
             IN  R(lval_copy(t.f, ub), [es EXCEPT ![1] = [g EXCEPT !.vals = stored]])

\* f->env->par = e done before the test on the formals left: a partly
\* applied closure carries the parent link.
lval_call_parfirst(es, i, f, a, d, ub) ==
    IF IsBuiltin(f) THEN CallBuiltin(f.builtin, es, i, a, d, ub)
    ELSE
    LET b == BindLoop(f, a, Len(a), Len(f.formals.cell), ub)
        t == IF b.err = NoVal THEN BindEmptyRest(b.f, ub) ELSE b
    IN  IF t.err # NoVal THEN R(t.err, es)
        ELSE IF Len(t.f.formals.cell) = 0
        THEN LET fenv == CallEnv(t.f, i)
                 r == builtin_eval(Append(es, fenv), Len(es) + 1,
                                   <<lval_copy(t.f.body, ub)>>, d, ub)
             IN  R(r.val, SubSeq(r.envs, 1, Len(es)))
        ELSE R(lval_copy([t.f EXCEPT !.env = CallEnv(t.f, i)], ub), es)

\* lval_call(e, f, a) on the cells a
lval_call(es, i, f, a, d, ub) ==
    IF IsBuiltin(f) THEN CallBuiltin(f.builtin, es, i, a, d, ub)
    ELSE
    LET b == BindLoop(f, a, Len(a), Len(f.formals.cell), ub)
        t == IF b.err = NoVal THEN BindEmptyRest(b.f, ub) ELSE b
    IN  IF t.err # NoVal THEN R(t.err, es)
        ELSE IF Len(t.f.formals.cell) = 0
        THEN \* f->env->par = e; the body is evaluated in f->env, which is
             \* destroyed with f when the call returns
             LET fenv == CallEnv(t.f, i)
                 r == builtin_eval(Append(es, fenv), Len(es) + 1,
                                   <<lval_copy(t.f.body, ub)>>, d, ub)
             IN  R(r.val, SubSeq(r.envs, 1, Len(es)))
        ELSE R(lval_copy(t.f, ub), es)

builtin_eval(es, i, a, d, ub) ==
    IF Len(a) # 1 THEN R(lval_err("Function 'eval' passed too many arguments!"), es)
    ELSE IF a[1].type # "QEXPR"
    THEN R(lval_err("Function 'eval' passed incorrect type!"), es)
    ELSE lval_eval(es, i, [a[1] EXCEPT !.type = "SEXPR"], d, ub)

\* f->builtin(e, a)
CallBuiltin(name, es, i, a, d, ub) ==
    CASE name = "list" -> R(builtin_list(a), es)
      [] name = "head" -> R(builtin_head(a), es)
      [] name = "tail" -> R(builtin_tail(a), es)
      [] name = "eval" -> builtin_eval(es, i, a, d, ub)
      [] name = "join" -> R(builtin_join(a), es)
      [] name = "cons" -> R(builtin_cons(a), es)
      [] name = "len" -> R(builtin_len(a), es)
      [] name = "init" -> R(builtin_init(a, ub), es)
      [] name = "\\" -> R(builtin_lambda(a), es)
      [] name = "def" -> builtin_var(es, i, a, "def", ub)
      [] name = "=" -> builtin_var(es, i, a, "=", ub)
      [] IsArith(name) -> R(builtin_op(a, name, ub), es)

---------------------------------------------------------------------------
(* The values lval_read builds from the text of an input *)

N(n) == lval_num(n)

F(n, d) == lval_float(<<n, d>>)

Y(name) == lval_sym(name)

S(cell) == [type |-> "SEXPR", cell |-> cell]

Q(cell) == [type |-> "QEXPR", cell |-> cell]

\* (\ {formals} {body}) as it is read
LamExpr(formals, body) == S(<<Y("\\"), Q(formals), Q(body)>>)

\* The closure (\ {formals} {body}) evaluates to
Lam(formals, body) == lval_lambda(Q(formals), Q(body))

RECURSIVE SeqsUpTo(_, _)
SeqsUpTo(X, n) ==
    IF n = 0 THEN {<<>>}
    ELSE LET shorter == SeqsUpTo(X, n - 1)
         IN  shorter \cup {Append(q, x) : q \in shorter, x \in X}

---------------------------------------------------------------------------
(* SpecArith: one call of an arithmetic builtin on a list of numbers *)

FloatLits == {<<0, 1>>, <<3, 2>>, <<-2, 1>>}

NumberVals ==
    {N(n) : n \in -MaxInt..MaxInt} \cup {lval_float(r) : r \in FloatLits}

NumberLists == SeqsUpTo(NumberVals, MaxArgs) \ {<<>>}

UBArith == [modzero : ModZeroOutcomes, stale : {0}, garbage : {FZero}]

InitArith ==
    /\ fn \in Ops
    /\ args \in NumberLists
    /\ ret = NoVal
    /\ envs = <<GlobalEnv>>
    /\ aux = NoVal

CallOp ==
    /\ ret = NoVal
    /\ \E ub \in UBArith : ret' = builtin_op(args, fn, ub)
    /\ UNCHANGED <<fn, args, envs, aux>>

NextArith == CallOp

SpecArith == InitArith /\ [][NextArith]_vars

Returned == ret # NoVal

\* C1: the result of an arithmetic builtin on Integers and Floats is tagged
\* Float when at least one argument is a Float, and Integer when all are
\* Integers.
C1_ResultTagFollowsPromotion ==
    (Returned /\ IsNumber(ret)) =>
        (ret.type = "FLOAT" <=> \E i \in 1..Len(args) : args[i].type = "FLOAT")

ZeroDivisorAt(i) ==
    /\ i \in 2..Len(args)
    /\ args[i] = lval_num(0)
    /\ \A j \in 1..(i - 1) : args[j].type = "NUM"
    /\ \A j \in 2..(i - 1) : args[j].num # 0

\* C3: in a "/" reduction, an Integer 0 divisor met while the accumulator is
\* an Integer makes the whole call return the Error "Division By Zero!",
\* whatever operands follow it.
C3_DivByZeroAborts ==
    (Returned /\ fn = "/" /\ \E i \in 2..Len(args) : ZeroDivisorAt(i)) =>
        ret = lval_err("Division By Zero!")

C3_Witness ==
    /\ Returned /\ fn = "/" /\ Len(args) = 3
    /\ ZeroDivisorAt(2) /\ args[3].type = "FLOAT"
    /\ ret = lval_err("Division By Zero!")

\* C4: (/ a b) on Integers a and b, b # 0, is the Integer q with
\* a = q * b + r, |r| < |b| and r zero or of the sign of a: the quotient
\* rounded toward zero.
C4_IntDivTruncates ==
    (Returned /\ fn = "/" /\ Len(args) = 2 /\ args[1].type = "NUM"
        /\ args[2].type = "NUM" /\ args[2].num # 0) =>
        /\ ret.type = "NUM"
        /\ LET r == args[1].num - ret.num * args[2].num
           IN  /\ Abs(r) < Abs(args[2].num)
               /\ r = 0 \/ Sign(r) = Sign(args[1].num)

C4_Witness ==
    /\ Returned /\ fn = "/" /\ args = <<lval_num(-1), lval_num(2)>>
    /\ ret = lval_num(0)

---------------------------------------------------------------------------
(* SpecEnv: lenv_put and lenv_get on the global environment *)

\* What malloc's memory may hold where lval_copy leaves dnum unwritten.
GarbageDoubles == {FZero, FUntracked}

UBCopy == [modzero : {"trap"}, stale : {0}, garbage : GarbageDoubles]

\* One value of every kind, compound ones with and without a Float inside
EveryKind ==
    { N(1), F(3, 2), lval_err("e"), Y("s"),
      S(<<Y("+"), N(1)>>), Q(<<N(1), Q(<<N(2)>>)>>), Q(<<F(3, 2)>>),
      lval_fun("head"),
      Lam(<<Y("x")>>, <<Y("x")>>),
      [Lam(<<Y("y")>>, <<Y("+"), Y("x"), Y("y")>>)
          EXCEPT !.env = [par |-> 0, syms |-> <<"x">>, vals |-> <<N(1)>>]] }

EnvNames == {"x", "y"}

RECURSIVE HasFloat(_)
HasFloat(v) ==
    CASE v.type = "FLOAT" -> TRUE
      [] IsList(v) -> \E j \in 1..Len(v.cell) : HasFloat(v.cell[j])
      [] IsLambda(v) ->
            \/ HasFloat(v.formals) \/ HasFloat(v.body)
            \/ \E j \in 1..Len(v.env.vals) : HasFloat(v.env.vals[j])
      [] OTHER -> FALSE

InitEnv ==
    /\ fn = "lenv_new"
    /\ args = <<>>
    /\ ret = NoVal
    /\ envs = <<GlobalEnv>>
    /\ aux = NoVal

\* lenv_put(e, k, v) on the global environment
Put ==
    \E name \in EnvNames, v \in EveryKind, ub \in UBCopy :
        /\ envs' = [envs EXCEPT ![1] = lenv_put(envs[1], name, v, ub)]
        /\ fn' = "lenv_put"
        /\ args' = <<Y(name), v>>
        /\ ret' = NoVal
        /\ UNCHANGED aux

\* lenv_get(e, k) for the key of the put before it
Get ==
    /\ fn = "lenv_put"
    /\ \E ub \in UBCopy : ret' = lenv_get(envs, 1, args[1].sym, ub)
    /\ fn' = "lenv_get"
    /\ UNCHANGED <<args, envs, aux>>

NextEnv == Put \/ Get

SpecEnv == InitEnv /\ [][NextEnv]_vars

\* C5: for a value v of every kind, put(name, v) followed by get(name) in
\* the same environment returns a value equal to v, kind and payload.
C5_PutThenGet == fn = "lenv_get" => ret = args[2]

\* What does hold: the round trip returns v when no Float occurs in v.
PutThenGetWithoutFloat ==
    (fn = "lenv_get" /\ ~HasFloat(args[2])) => ret = args[2]

---------------------------------------------------------------------------
(* SpecList: one call of a list builtin *)

\* Longest Q-Expression among the arguments.
MaxLen == 2
\* Longest argument list handed to a list builtin.
MaxListArgs == 3

ListBuiltins == {"list", "head", "tail", "join", "cons", "len", "init"}

ListElems == {N(1), Y("s")}

ListVals == {Q(c) : c \in SeqsUpTo(ListElems, MaxLen)} \cup {N(1)}

ListArgs == SeqsUpTo(ListVals, MaxListArgs) \ {<<>>}

UBList == [modzero : {"trap"}, stale : StaleCounts, garbage : {FZero}]

InitList ==
    /\ fn \in ListBuiltins
    /\ args \in ListArgs
    /\ ret = NoVal
    /\ envs = <<GlobalEnv>>
    /\ aux = NoVal

CallList ==
    /\ ret = NoVal
    /\ \E ub \in UBList :
          LET r == CallBuiltin(fn, envs, 1, args, MaxDepth, ub)
          IN  ret' = r.val /\ envs' = r.envs
    /\ UNCHANGED <<fn, args, aux>>

NextList == CallList

SpecList == InitList /\ [][NextList]_vars

OneQExpr == Len(args) = 1 /\ args[1].type = "QEXPR"

\* C6: len applied to exactly one QExpr of n elements returns Integer n for
\* every n >= 0; len {} returns Integer 0, not an Error.
C6_LenCounts ==
    (Returned /\ fn = "len" /\ OneQExpr) => ret = N(Len(args[1].cell))

\* What does hold: len counts the elements of a non-empty QExpr.
LenCountsNonEmpty ==
    (Returned /\ fn = "len" /\ OneQExpr /\ Len(args[1].cell) > 0) =>
        ret = N(Len(args[1].cell))

\* C7: init applied to exactly one non-empty QExpr of n elements returns a
\* QExpr of its first n-1 elements in their order.
C7_InitDropsLast ==
    (Returned /\ fn = "init" /\ OneQExpr /\ Len(args[1].cell) > 0) =>
        ret = Q(SubSeq(args[1].cell, 1, Len(args[1].cell) - 1))

\* C16: head, tail and init applied to the single argument {} each return
\* an Error, "Function '<name>' passed {}!", and leave every environment
\* binding as it was.
C16_EmptyListErrors ==
    (Returned /\ fn \in {"head", "tail", "init"} /\ args = <<Q(<<>>)>>) =>
        /\ ret = lval_err("Function '" \o fn \o "' passed {}!")
        /\ envs = <<GlobalEnv>>

C16_Witness ==
    /\ Returned /\ fn = "init" /\ args = <<Q(<<>>)>>
    /\ ret = lval_err("Function 'init' passed {}!")
    /\ envs = <<GlobalEnv>>

\* C18: cons x q, q a QExpr of n >= 0 elements, returns a QExpr of n+1
\* elements: x first, then the elements of q in their order; cons 1 {} is {1}.
C18_ConsPrepends ==
    (Returned /\ fn = "cons" /\ Len(args) = 2 /\ args[2].type = "QEXPR") =>
        /\ ret.type = "QEXPR"
        /\ Len(ret.cell) = Len(args[2].cell) + 1
        /\ ret.cell[1] = args[1]
        /\ \A j \in 1..Len(args[2].cell) : ret.cell[j + 1] = args[2].cell[j]

C18_Witness ==
    /\ Returned /\ fn = "cons"
    /\ args = <<Q(<<N(1)>>), Q(<<Y("s"), N(1)>>)>>
    /\ ret = Q(<<Q(<<N(1)>>), Y("s"), N(1)>>)

\* The number of elements of the first k arguments together
RECURSIVE LenUpTo(_)
LenUpTo(k) == IF k = 0 THEN 0 ELSE LenUpTo(k - 1) + Len(args[k].cell)

\* C19: join applied to QExprs q1..qk returns one QExpr holding the elements
\* of q1, then of q2, ..., then of qk, each in its order; its length is the
\* sum of their lengths and an empty argument adds nothing.
C19_JoinConcatenates ==
    (Returned /\ fn = "join" /\ \A k \in 1..Len(args) : args[k].type = "QEXPR") =>
        /\ ret.type = "QEXPR"
        /\ Len(ret.cell) = LenUpTo(Len(args))
        /\ \A k \in 1..Len(args) : \A j \in 1..Len(args[k].cell) :
              ret.cell[LenUpTo(k - 1) + j] = args[k].cell[j]

C19_Witness ==
    /\ Returned /\ fn = "join"
    /\ args = <<Q(<<N(1), Y("s")>>), Q(<<Y("s")>>)>>
    /\ ret = Q(<<N(1), Y("s"), Y("s")>>)

---------------------------------------------------------------------------
(* SpecCall: lval_call of a closure, on all its arguments at once and on a *)
(* first part of them followed by the rest                                 *)

\* Longest argument list handed to a closure.
MaxCallArgs == 3

Closures ==
    { Lam(<<Y("x"), Y("y")>>, <<Y("+"), Y("x"), Y("y")>>),
      Lam(<<Y("x"), Y("y")>>, <<Y("list"), Y("y"), Y("x")>>),
      Lam(<<Y("x"), Y("y"), Y("z")>>, <<Y("list"), Y("x"), Y("y"), Y("z")>>),
      Lam(<<Y("&"), Y("xs")>>, <<Y("xs")>>),
      Lam(<<Y("x"), Y("&"), Y("xs")>>, <<Y("xs")>>),
      Lam(<<Y("x"), Y("y"), Y("&"), Y("xs")>>, <<Y("xs")>>) }

CallVals == {N(1), N(2), F(3, 2), Q(<<N(1)>>)}

CallArgs == SeqsUpTo(CallVals, MaxCallArgs) \ {<<>>}

NoCall == [k |-> 0, part |-> NoVal, rest |-> NoVal]

InitCall ==
    /\ fn \in Closures
    /\ args \in CallArgs
    /\ ret = NoVal
    /\ envs = <<GlobalEnv>>
    /\ aux = NoCall

\* (f a1 ... am)
CallAll ==
    /\ ret = NoVal
    /\ \E ub \in UBCopy :
          LET r == lval_call(envs, 1, fn, args, MaxDepth, ub)
          IN  ret' = r.val /\ envs' = r.envs
    /\ UNCHANGED <<fn, args, aux>>

\* (f a1 ... ak), k < m
CallFirst ==
    /\ aux.part = NoVal
    /\ \E k \in 1..(Len(args) - 1), ub \in UBCopy :
          LET r == lval_call(envs, 1, fn, SubSeq(args, 1, k), MaxDepth, ub)
          IN  /\ aux' = [k |-> k, part |-> r.val, rest |-> NoVal]
              /\ envs' = r.envs
    /\ UNCHANGED <<fn, args, ret>>

\* ((f a1 ... ak) ak+1 ... am), when (f a1 ... ak) is a closure
CallRest ==
    /\ aux.part # NoVal /\ IsLambda(aux.part)
    /\ aux.rest = NoVal
    /\ \E ub \in UBCopy :
          LET r == lval_call(envs, 1, aux.part,
                             SubSeq(args, aux.k + 1, Len(args)), MaxDepth, ub)
          IN  /\ aux' = [aux EXCEPT !.rest = r.val]
              /\ envs' = r.envs
    /\ UNCHANGED <<fn, args, ret>>

NextCall == CallAll \/ CallFirst \/ CallRest

SpecCall == InitCall /\ [][NextCall]_vars

Formals == fn.formals.cell

NFormals == Len(Formals)

HasAmp == \E j \in 1..NFormals : Formals[j].sym = "&"

\* The number of formals before '&'
BeforeAmp == CHOOSE j \in 0..NFormals : Formals[j + 1].sym = "&"

AnyFloat(vs) == \E j \in 1..Len(vs) : HasFloat(vs[j])

\* The closure a call on the first k of n arguments is to return
PartialOf(k) ==
    /\ IsLambda(aux.part)
    /\ aux.part.formals = Q(SubSeq(Formals, k + 1, NFormals))
    /\ aux.part.body = fn.body
    /\ aux.part.env.syms = [j \in 1..k |-> Formals[j].sym]
    /\ aux.part.env.vals = SubSeq(args, 1, k)

\* C8: a closure with n formals (no '&') called on k arguments, 0 < k < n,
\* returns a Function whose formals are the last n-k and whose environment
\* binds the first k formals to the arguments given; that Function applied
\* to the other n-k arguments gives what the closure gives on all n.
C8_PartialApplication ==
    (~HasAmp /\ Len(args) = NFormals /\ aux.part # NoVal) =>
        /\ PartialOf(aux.k)
        /\ (ret # NoVal /\ aux.rest # NoVal) => aux.rest = ret

\* What does hold: the same, when no Float is among the arguments.
PartialApplicationWithoutFloat ==
    (~HasAmp /\ Len(args) = NFormals /\ aux.part # NoVal /\ ~AnyFloat(args)) =>
        /\ PartialOf(aux.k)
        /\ (ret # NoVal /\ aux.rest # NoVal) => aux.rest = ret

\* C9: when binding reaches '&' followed by one symbol s, s is bound to a
\* QExpr of the arguments not yet consumed, in order, and to the empty QExpr
\* when none remain; the body (here {xs}, the value of s) is evaluated.
C9_VariadicBinding ==
    (HasAmp /\ ret # NoVal /\ Len(args) >= BeforeAmp) =>
        ret = Q(SubSeq(args, BeforeAmp + 1, Len(args)))

\* What does hold: the same, when no Float is among the arguments.
VariadicBindingWithoutFloat ==
    (HasAmp /\ ret # NoVal /\ Len(args) >= BeforeAmp /\ ~AnyFloat(args)) =>
        ret = Q(SubSeq(args, BeforeAmp + 1, Len(args)))

---------------------------------------------------------------------------
(* Spec: the read-eval-print loop of main.  Each step reads one input and  *)
(* evaluates it in the global environment; aux is the history of the       *)
(* inputs read before it.  A fault ends the process.                       *)

\* Inputs read in one session.
MaxInputs == 3
\* Deepest nesting of closure bodies around a def or a symbol.
MaxNest == 2

Param(d) == "y" \o ToString(d)

\* def {x} arg, inside d nested closure bodies, the value handed down
RECURSIVE NestDef(_, _)
NestDef(d, arg) ==
    IF d = 0 THEN <<Y("def"), Q(<<Y("x")>>), arg>>
    ELSE <<LamExpr(<<Y(Param(d))>>, NestDef(d - 1, Y(Param(d)))), arg>>

\* x, inside d nested closure bodies none of which binds x
RECURSIVE NestLook(_)
NestLook(d) ==
    IF d = 0 THEN <<Y("x")>>
    ELSE <<LamExpr(<<Y(Param(d))>>, NestLook(d - 1)), N(0)>>

DefAt(d, v) == S(NestDef(d, v))

LookAt(d) == S(NestLook(d))

\* (\ {x} {x}) 5: the formal x shadows the global x
Shadowed == S(<<LamExpr(<<Y("x")>>, <<Y("x")>>), N(5)>>)

DefVals == {N(1), F(3, 2), Q(<<N(2)>>)}

DefInputs == {DefAt(d, v) : d \in 0..MaxNest, v \in DefVals}

LookInputs == {LookAt(d) : d \in 0..MaxNest}

Inputs == DefInputs \cup LookInputs \cup {Shadowed}

Init ==
    /\ fn = "lval_eval"
    /\ args = <<>>
    /\ ret = NoVal
    /\ envs = <<GlobalEnv>>
    /\ aux = <<>>

\* lval_eval(e, lval_read(r.output)), then the result is printed and freed
ReadEval ==
    /\ ~IsFault(ret)
    /\ Len(aux) + Len(args) < MaxInputs
    /\ \E in \in Inputs, ub \in UBCopy :
          LET r == lval_eval(envs, 1, in, MaxDepth, ub)
          IN  /\ args' = <<in>>
              /\ ret' = r.val
              /\ envs' = r.envs
    /\ aux' = aux \o args
    /\ UNCHANGED fn

Next == ReadEval

Spec == Init /\ [][Next]_vars

\* The value bound to name in the global environment
GlobalValue(name) == envs[1].vals[Lookup(envs[1], name)]

GlobalBinds(name) == Lookup(envs[1], name) # 0

IsDefOf(in, v) == \E d \in 0..MaxNest : in = DefAt(d, v)

IsDef(in) == \E v \in DefVals : IsDefOf(in, v)

\* v is the value of the last def of x among the inputs read so far
LastDefBefore(v) ==
    \E j \in 1..Len(aux) :
        /\ IsDefOf(aux[j], v)
        /\ \A h \in (j + 1)..Len(aux) : ~IsDef(aux[h])

\* C10: after def of x to v at any call depth the global environment holds
\* x = v, and a later evaluation of x from an environment whose chain
\* reaches the global one with no nearer binding of x yields v.
C10_DefIsGlobal ==
    \A v \in DefVals :
        /\ (Len(args) = 1 /\ IsDefOf(args[1], v)) =>
              (GlobalBinds("x") /\ GlobalValue("x") = v)
        /\ (Len(args) = 1 /\ args[1] \in LookInputs /\ LastDefBefore(v)) =>
              ret = v

\* What does hold: the same, for every value that is not a Float.
DefIsGlobalWithoutFloat ==
    \A v \in DefVals :
        ~HasFloat(v) =>
            /\ (Len(args) = 1 /\ IsDefOf(args[1], v)) =>
                  (GlobalBinds("x") /\ GlobalValue("x") = v)
            /\ (Len(args) = 1 /\ args[1] \in LookInputs /\ LastDefBefore(v)) =>
                  ret = v

---------------------------------------------------------------------------
(* SpecScope: the read-eval-print loop of main on inputs that bind and     *)
(* look up symbols at the prompt and inside closure bodies.                *)

\* Inputs read in one session of SpecScope.
MaxScopeInputs == 3

\* What lval_copy may return for v
Copies(v) == {lval_copy(v, ub) : ub \in UBCopy}

Unbound(name) == lval_err("Unbound Symbol '" \o name \o "'")

\* def {f} (\ {a} {y}): y is free in the body of f
DefF == S(<<Y("def"), Q(<<Y("f")>>), LamExpr(<<Y("a")>>, <<Y("y")>>)>>)

\* def {y} v
DefY(v) == S(<<Y("def"), Q(<<Y("y")>>), v>>)

\* (\ {y} {f 0}) v: f is called from a body whose environment binds y to v
CallInner(v) == S(<<LamExpr(<<Y("y")>>, <<Y("f"), N(0)>>), v>>)

\* f 0
CallTop == S(<<Y("f"), N(0)>>)

\* ((\ {y} {\ {a} {y}}) 5) 0: the inner lambda is built where y is 5 and
\* called at the prompt
CreatedInner ==
    S(<<S(<<LamExpr(<<Y("y")>>, <<Y("\\"), Q(<<Y("a")>>), Q(<<Y("y")>>)>>), N(5)>>),
        N(0)>>)

\* = {w} 2
PutTop == S(<<Y("="), Q(<<Y("w")>>), N(2)>>)

\* (\ {y} {list (= {z} y) z}) 4
PutLocal ==
    S(<<LamExpr(<<Y("y")>>,
                <<Y("list"), S(<<Y("="), Q(<<Y("z")>>), Y("y")>>), Y("z")>>),
        N(4)>>)

\* (\ {y} {def {v} y}) 9
DefNested ==
    S(<<LamExpr(<<Y("y")>>, <<Y("def"), Q(<<Y("v")>>), Y("y")>>), N(9)>>)

\* head {}
HeadEmpty == S(<<Y("head"), Q(<<>>)>>)

\* y
LookY == S(<<Y("y")>>)

GlobalYVals == {N(3), F(3, 2)}

InnerVals == {N(7), F(5, 2)}

ScopeInputs ==
    {DefF, CallTop, CreatedInner, PutTop, PutLocal, DefNested, HeadEmpty, LookY}
    \cup {DefY(v) : v \in GlobalYVals} \cup {CallInner(v) : v \in InnerVals}

InitScope ==
    /\ fn = "lval_eval"
    /\ args = <<>>
    /\ ret = NoVal
    /\ envs = <<GlobalEnv>>
    /\ aux = <<>>

\* lval_eval(e, lval_read(r.output)), then the result is printed and freed
ReadScope ==
    /\ ~IsFault(ret)
    /\ Len(aux) + Len(args) < MaxScopeInputs
    /\ \E in \in ScopeInputs, ub \in UBCopy :
          LET r == lval_eval(envs, 1, in, MaxDepth, ub)
          IN  /\ args' = <<in>>
              /\ ret' = r.val
              /\ envs' = r.envs
    /\ aux' = aux \o args
    /\ UNCHANGED fn

NextScope == ReadScope

SpecScope == InitScope /\ [][NextScope]_vars

\* The input just evaluated
Evaluated(in) == Len(args) = 1 /\ args[1] = in

ReadBefore(in) == \E j \in 1..Len(aux) : aux[j] = in

\* C11: a saturated closure's environment has the caller's environment as
\* parent.  f, whose body's y is free, called from a closure body that binds
\* y to v yields v, whatever the global y; a lambda built where y is 5 and
\* called at the prompt yields the global y, or Unbound Symbol, never 5.
C11_ParentIsCaller ==
    /\ \A v \in InnerVals :
          (Evaluated(CallInner(v)) /\ ReadBefore(DefF)) => ret \in Copies(v)
    /\ Evaluated(CreatedInner) =>
          IF GlobalBinds("y") THEN ret \in Copies(GlobalValue("y"))
          ELSE ret = Unbound("y")

C11_Witness ==
    /\ Evaluated(CallInner(N(7))) /\ ReadBefore(DefF) /\ ReadBefore(DefY(N(3)))
    /\ GlobalValue("y") = N(3)
    /\ ret = N(7)

\* The inputs that hold a def, or an = evaluated at the prompt
GlobalWriters == {DefF, PutTop, DefNested} \cup {DefY(v) : v \in GlobalYVals}

\* C12: the global environment's bindings change only through def (at any
\* depth) or = at the prompt.  An input holding neither leaves them as they
\* were, whether it ends in a value or an Error; = inside a closure body
\* binds in the closure's environment (z is read back there), which is gone
\* when the call returns.
C12_GlobalChangesOnlyByDefOrPut ==
    [][\A in \in ScopeInputs :
          args' = <<in>> =>
             /\ Len(envs') = 1
             /\ in \notin GlobalWriters => envs'[1] = envs[1]
             /\ in = PutLocal => ret' = Q(<<lval_sexpr, N(4)>>)]_vars

C12_Witness ==
    /\ Evaluated(PutLocal) /\ ReadBefore(PutTop)
    /\ ret = Q(<<lval_sexpr, N(4)>>)
    /\ GlobalBinds("w") /\ GlobalValue("w") = N(2)
    /\ ~GlobalBinds("z")

---------------------------------------------------------------------------
(* SpecChain: lenv_get from the innermost environment of a chain of        *)
(* closure environments above the global one                               *)

\* Longest chain of environments, the global one included.
MaxChain == 3

ChainNames == <<"x", "y">>

LookNames == {"x", "y", "u"}

\* What environment k of a chain may bind a name to: the Integer k tells
\* the environments apart; a Float is stored as lval_copy left it.
FrameVals(k) == {N(k), lval_float(FUntracked)}

\* Environment k with the bindings b, made in the order of ChainNames
RECURSIVE BindNames(_, _, _)
BindNames(e, b, j) ==
    IF j > Len(ChainNames) THEN e
    ELSE BindNames(IF b[j] = NoVal THEN e
                   ELSE [e EXCEPT !.syms = Append(e.syms, ChainNames[j]),
                                  !.vals = Append(e.vals, b[j])],
                   b, j + 1)

FrameOf(k, b) ==
    BindNames(IF k = 1 THEN GlobalEnv ELSE [lenv_new EXCEPT !.par = k - 1], b, 1)

Frames(k) ==
    {FrameOf(k, b) : b \in [1..Len(ChainNames) -> FrameVals(k) \cup {NoVal}]}

\* The chains of n environments: each one's parent is the one before it
RECURSIVE Chains(_)
Chains(n) ==
    IF n = 0 THEN {<<>>}
    ELSE {Append(c, f) : c \in Chains(n - 1), f \in Frames(n)}

InitChain ==
    /\ fn = "lenv_get"
    /\ args = <<>>
    /\ ret = NoVal
    /\ \E n \in 1..MaxChain : envs \in Chains(n)
    /\ aux = NoVal

\* lenv_get(e, k), e the innermost environment
GetChain ==
    /\ ret = NoVal
    /\ \E name \in LookNames, ub \in UBCopy :
          /\ args' = <<Y(name)>>
          /\ ret' = lenv_get(envs, Len(envs), name, ub)
    /\ UNCHANGED <<fn, envs, aux>>

NextChain == GetChain

SpecChain == InitChain /\ [][NextChain]_vars

\* The environments from es[i] to the root, nearest first
RECURSIVE ChainFrom(_, _)
ChainFrom(es, i) == IF i = 0 THEN <<>> ELSE <<i>> \o ChainFrom(es, es[i].par)

BindsName(e, name) == \E j \in 1..Len(e.syms) : e.syms[j] = name

\* C13: get(name) returns a copy of the binding in the nearest environment
\* of the parent chain that binds name, and the Error "Unbound Symbol
\* '<name>'" only when no environment up to the root binds it.
C13_NearestBindingWins ==
    Returned =>
        LET name == args[1].sym
            ch == ChainFrom(envs, Len(envs))
            binders == {p \in 1..Len(ch) : BindsName(envs[ch[p]], name)}
        IN  IF binders = {} THEN ret = Unbound(name)
            ELSE LET p == CHOOSE p \in binders : \A q \in binders : p <= q
                     e == envs[ch[p]]
                 IN  \E j \in 1..Len(e.syms) :
                        e.syms[j] = name /\ ret \in Copies(e.vals[j])

C13_Witness ==
    /\ Returned /\ Len(envs) = 3 /\ args = <<Y("x")>>
    /\ ~BindsName(envs[3], "x")
    /\ BindsName(envs[2], "x") /\ BindsName(envs[1], "x")
    /\ ret = N(2)

---------------------------------------------------------------------------
(* SpecCallErr: lval_call of closures whose body has an effect (def {z} x), *)
(* on too many arguments and with a malformed '&' among the formals         *)

\* {def {z} x}
DefZBody == <<Y("def"), Q(<<Y("z")>>), Y("x")>>

PlainClosures ==
    { Lam(<<Y("x")>>, DefZBody), Lam(<<Y("x"), Y("y")>>, DefZBody) }

\* '&' last, or followed by two symbols
MalformedClosures ==
    { Lam(<<Y("x"), Y("&")>>, DefZBody),
      Lam(<<Y("x"), Y("&"), Y("a"), Y("b")>>, DefZBody),
      Lam(<<Y("x"), Y("y"), Y("&")>>, DefZBody),
      Lam(<<Y("&"), Y("a"), Y("b")>>, DefZBody),
      Lam(<<Y("&")>>, DefZBody) }

ErrVals == {N(1), F(3, 2)}

ErrArgs == SeqsUpTo(ErrVals, MaxCallArgs) \ {<<>>}

InitCallErr ==
    /\ fn \in PlainClosures \cup MalformedClosures
    /\ args \in ErrArgs
    /\ ret = NoVal
    /\ envs = <<GlobalEnv>>
    /\ aux = NoCall

SpecCallErr == InitCallErr /\ [][NextCall]_vars

\* C14: a closure without '&' called on more arguments than it has formals
\* left returns "Function passed too many arguments. Got <given>, Expected
\* <total>.", given the arguments of that call and total the formals at its
\* start, for the closure itself and for a Function a partial call returned;
\* the body is not evaluated (z stays unbound).
C14_TooManyArguments ==
    LET msg(g, t) == lval_err("Function passed too many arguments. Got "
                              \o ToString(g) \o ", Expected " \o ToString(t) \o ".")
    IN  (~HasAmp /\ Len(args) > NFormals) =>
            /\ ret # NoVal => ret = msg(Len(args), NFormals)
            /\ aux.rest # NoVal =>
                  aux.rest = msg(Len(args) - aux.k, NFormals - aux.k)
            /\ aux.k # NFormals => envs = <<GlobalEnv>>

C14_Witness ==
    /\ NFormals = 2 /\ Len(args) = 3 /\ aux.k = 1
    /\ ret = lval_err("Function passed too many arguments. Got 3, Expected 2.")
    /\ aux.rest = lval_err("Function passed too many arguments. Got 2, Expected 1.")
    /\ envs = <<GlobalEnv>>

\* '&' is among the formals and is not followed by exactly one symbol
Malformed == HasAmp /\ NFormals - (BeforeAmp + 1) # 1

\* C15: when binding reaches a '&' that is not followed by exactly one
\* symbol, the call returns the "Function format invalid" Error, whether
\* arguments remain at that point or none do, in one call or after a partial
\* one; the body is never evaluated (z stays unbound).
C15_MalformedVariadic ==
    LET msg == lval_err("Function format invalid. Symbol '&' not followed by single symbol.")
    IN  Malformed =>
            /\ (ret # NoVal /\ Len(args) >= BeforeAmp) => ret = msg
            /\ (aux.part # NoVal /\ aux.k >= BeforeAmp) => aux.part = msg
            /\ aux.rest # NoVal => aux.rest = msg
            /\ envs = <<GlobalEnv>>

\* {x y &} on two arguments, at once and one after the other: no argument
\* remains when '&' is reached
C15_Witness ==
    LET msg == lval_err("Function format invalid. Symbol '&' not followed by single symbol.")
    IN  /\ fn = Lam(<<Y("x"), Y("y"), Y("&")>>, DefZBody)
        /\ Len(args) = 2 /\ ret = msg
        /\ aux.k = 1 /\ IsLambda(aux.part) /\ aux.rest = msg

---------------------------------------------------------------------------
(* SpecList8: one call of one of the eight list builtins, eval included *)

ListBuiltins8 == ListBuiltins \cup {"eval"}

InitList8 ==
    /\ fn \in ListBuiltins8
    /\ args \in ListArgs
    /\ ret = NoVal
    /\ envs = <<GlobalEnv>>
    /\ aux = NoVal

SpecList8 == InitList8 /\ [][NextList]_vars

IsErr(v) == v.type = "ERR"

\* The builtins that take exactly one argument, a QExpr
OneQExprBuiltins == {"head", "tail", "init", "len", "eval"}

\* A non-QExpr stands where the builtin requires a QExpr
NonQExprWhereRequired ==
    \/ fn \in OneQExprBuiltins /\ args[1].type # "QEXPR"
    \/ fn = "cons" /\ Len(args) >= 2 /\ args[2].type # "QEXPR"
    \/ fn = "join" /\ \E j \in 1..Len(args) : args[j].type # "QEXPR"

\* C17, as claimed: each of the eight builtins has one exact argument count,
\* so a call that did not return an Error fixes it, and a call on any other
\* number of arguments returns an Error; and a non-QExpr where a QExpr is
\* required gives an Error.
C17_ExactArityAndKind ==
    Returned =>
        /\ ~IsErr(ret) =>
              \A b \in ListArgs, ub \in UBList :
                  Len(b) # Len(args) =>
                      IsErr(CallBuiltin(fn, envs, 1, b, MaxDepth, ub).val)
        /\ NonQExprWhereRequired => IsErr(ret)

\* C17, amended: head, tail, init, len and eval return an Error unless
\* called on exactly one argument that is a QExpr; cons unless called on
\* exactly two arguments, the second a QExpr; join takes any number of
\* arguments and returns an Error when one of them is not a QExpr, a QExpr
\* otherwise; list takes any number and kind of arguments and returns them
\* as a QExpr, never an Error.
C17_ListBuiltinsValidate ==
    Returned =>
        /\ (fn \in OneQExprBuiltins /\ Len(args) # 1) => IsErr(ret)
        /\ (fn = "cons" /\ Len(args) # 2) => IsErr(ret)
        /\ NonQExprWhereRequired => IsErr(ret)
        /\ (fn = "join" /\ ~NonQExprWhereRequired) => ret.type = "QEXPR"
        /\ fn = "list" => ret = Q(args)

C17_Witness ==
    /\ Returned /\ fn = "list" /\ Len(args) = 2 /\ args[1].type = "NUM"
    /\ ret = Q(args)

---------------------------------------------------------------------------
(* SpecPow: (^ b e) on an Integer base and an Integer exponent from 0 up *)

\* Integer bases range over -MaxBase..MaxBase.
MaxBase == 3
\* Largest exponent.
MaxExp == 32

InitPow ==
    /\ fn = "^"
    /\ args \in {<<N(b), N(e)>> : b \in -MaxBase..MaxBase, e \in 0..MaxExp}
    /\ ret = NoVal
    /\ envs = <<GlobalEnv>>
    /\ aux = NoVal

SpecPow == InitPow /\ [][NextArith]_vars

\* 1 multiplied by b, e times; LUntracked once the product leaves the range
\* the model follows
RECURSIVE IterPow(_, _)
IterPow(b, e) == IF e = 0 THEN 1 ELSE LMul(IterPow(b, e - 1), b)

\* C20: for an Integer base b and an Integer exponent e, 0 <= e <= MaxExp,
\* (^ b e) is the Integer 1 * b * ... * b (e factors), 1 for e = 0: the
\* squaring loop agrees with repeated multiplication wherever the product
\* is in the range the model follows.
C20_PowIsRepeatedProduct ==
    (Returned /\ fn = "^" /\ Len(args) = 2
        /\ args[1].type = "NUM" /\ args[2].type = "NUM"
        /\ args[2].num >= 0 /\ args[2].num <= MaxExp) =>
        /\ ret.type = "NUM"
        /\ Tracked(IterPow(args[1].num, args[2].num)) =>
              ret.num = IterPow(args[1].num, args[2].num)

C20_Witness ==
    /\ Returned /\ fn = "^" /\ args = <<N(-3), N(9)>>
    /\ ret = N(-19683)

---------------------------------------------------------------------------
(* SpecBind: one call of a binding builtin, \ def or =, from the global    *)
(* environment or from a closure's environment below it                    *)

\* Longest argument list handed to a binding builtin.
MaxBindArgs == 3

BindBuiltins == {"\\", "def", "="}

BindVals ==
    { Q(<<>>), Q(<<Y("x")>>), Q(<<Y("x"), Y("y")>>), Q(<<Y("x"), N(1)>>),
      N(1), F(3, 2) }

BindArgs == SeqsUpTo(BindVals, MaxBindArgs) \ {<<>>}

\* The global environment with x bound, alone or with a closure's
\* environment that binds y below it
BindChains ==
    LET g == [GlobalEnv EXCEPT !.syms = Append(@, "x"), !.vals = Append(@, N(0))]
        l == [par |-> 1, syms |-> <<"y">>, vals |-> <<N(0)>>]
    IN  {<<g>>, <<g, l>>}

\* aux keeps the environments as they were before the call
InitBind ==
    /\ fn \in BindBuiltins
    /\ args \in BindArgs
    /\ ret = NoVal
    /\ envs \in BindChains
    /\ aux = envs

\* f->builtin(e, a), e the innermost environment
CallBind ==
    /\ ret = NoVal
    /\ \E ub \in UBCopy :
          LET r == CallBuiltin(fn, envs, Len(envs), args, MaxDepth, ub)
          IN  ret' = r.val /\ envs' = r.envs
    /\ UNCHANGED <<fn, args, aux>>

NextBind == CallBind

SpecBind == InitBind /\ [][NextBind]_vars

AllSymbols(q) == \A j \in 1..Len(q.cell) : q.cell[j].type = "SYM"

\* C21: lambda given exactly two QExprs, the first holding Symbols only,
\* returns a closure with those formals, that body and an environment with
\* no binding and no parent; given anything else it returns an Error; no
\* environment is changed either way.
C21_LambdaBuildsClosure ==
    (Returned /\ fn = "\\") =>
        /\ envs = aux
        /\ IF Len(args) = 2 /\ args[1].type = "QEXPR" /\ args[2].type = "QEXPR"
              /\ AllSymbols(args[1])
           THEN /\ ret.type = "FUN" /\ ret.builtin = "NULL"
                /\ ret.formals = args[1] /\ ret.body = args[2]
                /\ ret.env.syms = <<>> /\ ret.env.vals = <<>> /\ ret.env.par = 0
           ELSE ret.type = "ERR"

C21_Witness ==
    /\ Returned /\ fn = "\\" /\ Len(envs) = 2
    /\ args = <<Q(<<Y("x"), Y("y")>>), Q(<<Y("x")>>)>>
    /\ ret.type = "FUN" /\ ret.formals = args[1] /\ ret.env.par = 0


\* The first argument names as many Symbols as values follow it
VarWellFormed ==
    /\ args[1].type = "QEXPR"
    /\ AllSymbols(args[1])
    /\ Len(args[1].cell) = Len(args) - 1

\* The environment def or = writes: the root for def, the innermost for =
VarTarget == IF fn = "def" THEN RootOf(aux, Len(aux)) ELSE Len(aux)

\* What frame e binds name to, NoVal when it does not bind it
BoundTo(e, name) ==
    IF Lookup(e, name) = 0 THEN NoVal ELSE e.vals[Lookup(e, name)]

\* Frame k is as before the call but for the symbols of the first argument
KeptBut(k, names) ==
    \A name \in {"x", "y"} \ names :
        BoundTo(envs[k], name) = BoundTo(aux[k], name)

VarOutcome(bound(_, _)) ==
    (Returned /\ fn \in {"def", "="}) =>
        IF VarWellFormed
        THEN LET syms == args[1].cell
                 names == {syms[j].sym : j \in 1..Len(syms)}
             IN  /\ ret = lval_sexpr
                 /\ Len(envs) = Len(aux)
                 /\ \A j \in 1..Len(syms) :
                        bound(BoundTo(envs[VarTarget], syms[j].sym), args[j + 1])
                 /\ KeptBut(VarTarget, names)
                 /\ \A k \in 1..Len(envs) : k # VarTarget => envs[k] = aux[k]
        ELSE ret.type = "ERR" /\ envs = aux

\* C22: def and = are all-or-nothing: when the first argument is not a
\* QExpr, holds a non-Symbol, or names a different number of symbols than
\* values follow, the result is an Error and no environment is changed; on
\* success symbol i is bound to value i (in the root for def, in the
\* innermost environment for =) and the result is the empty SExpr.
C22_VarAllOrNothing == VarOutcome(LAMBDA b, v : b = v)

\* The same with symbol i bound to what lval_copy makes of value i
VarAllOrNothingUpToCopy == VarOutcome(LAMBDA b, v : b \in Copies(v))

---------------------------------------------------------------------------
(* SpecSexpr: one S-Expression of up to MaxChildren children evaluated in  *)
(* the global environment                                                  *)

\* Most children of the S-Expression evaluated.
MaxChildren == 3

\* (def {z} 2)
DefZ == S(<<Y("def"), Q(<<Y("z")>>), N(2)>>)

\* (\ {} {def {z} 2}): a closure that would define z if it were run
LamZ == LamExpr(<<>>, <<Y("def"), Q(<<Y("z")>>), N(2)>>)

\* A number, a builtin, an unbound symbol, z, a definition of z, a lambda
SexprChildren == {N(1), Y("list"), Y("u"), Y("z"), DefZ, LamZ}

SexprInputs == {S(c) : c \in SeqsUpTo(SexprChildren, MaxChildren)}

InitSexpr ==
    /\ fn = "lval_eval"
    /\ args \in {<<in>> : in \in SexprInputs}
    /\ ret = NoVal
    /\ envs = <<GlobalEnv>>
    /\ aux = envs

\* lval_eval(e, v) on the S-Expression read
EvalSexpr ==
    /\ ret = NoVal
    /\ \E ub \in UBCopy :
          LET r == lval_eval(envs, 1, args[1], MaxDepth, ub)
          IN  ret' = r.val /\ envs' = r.envs
    /\ UNCHANGED <<fn, args, aux>>

NextSexpr == EvalSexpr

SpecSexpr == InitSexpr /\ [][NextSexpr]_vars

\* The children of the S-Expression evaluated
Children == args[1].cell

\* What child j evaluates to when the children before it were evaluated
\* first
ChildValue(j) ==
    LET c == Children[j]
    IN  CASE c = N(1) -> N(1)
          [] c = Y("list") -> lval_fun("list")
          [] c = Y("u") -> Unbound("u")
          [] c = Y("z") -> IF \E h \in 1..(j - 1) : Children[h] = DefZ
                           THEN N(2) ELSE Unbound("z")
          [] c = DefZ -> lval_sexpr
          [] c = LamZ -> Lam(<<>>, <<Y("def"), Q(<<Y("z")>>), N(2)>>)

ErrorChild(j) == ChildValue(j).type = "ERR"

FirstErrorChild(j) == ErrorChild(j) /\ \A h \in 1..(j - 1) : ~ErrorChild(h)

\* C23: when a child of an S-Expression evaluates to an Error, the result is
\* the Error of the lowest-indexed such child, whatever the other children
\* are, the first one not being a Function included.
C23_FirstErrorWins ==
    Returned =>
        \A j \in 1..Len(Children) : FirstErrorChild(j) => ret = ChildValue(j)

C23_Witness ==
    /\ Returned
    /\ Children = <<N(1), Y("z"), Y("u")>>
    /\ ret = Unbound("z")


HasDefZ == \E j \in 1..Len(Children) : Children[j] = DefZ

\* C24: every child is evaluated, in increasing order, before the children
\* are scanned for an Error: a child to the right of an erroring child is
\* still evaluated, so z is globally bound to 2 after the evaluation exactly
\* when (def {z} 2) is among the children, whatever is returned; and the
\* values list is applied to are those of the children evaluated left to
\* right.
C24_AllChildrenEvaluatedInOrder ==
    Returned =>
        /\ HasDefZ => GlobalBinds("z") /\ GlobalValue("z") = N(2)
        /\ ~HasDefZ => envs = aux
        /\ ( /\ Len(Children) > 1 /\ Children[1] = Y("list")
             /\ \A j \in 1..Len(Children) : ~ErrorChild(j) )
           => ret = Q([j \in 1..(Len(Children) - 1) |-> ChildValue(j + 1)])

C24_Witness ==
    /\ Returned
    /\ Children = <<Y("u"), DefZ>>
    /\ ret = Unbound("u")
    /\ GlobalBinds("z") /\ GlobalValue("z") = N(2)

\* C25: an S-Expression without children evaluates to the empty
\* S-Expression, and one with a single child to that child's value: a
\* Function is returned as it is and not run.
C25_EmptyAndSingle ==
    Returned =>
        /\ Len(Children) = 0 => ret = lval_sexpr /\ envs = aux
        /\ Len(Children) = 1 =>
              /\ ret = ChildValue(1)
              /\ Children[1] # DefZ => envs = aux

C25_Witness ==
    /\ Returned
    /\ Children = <<LamZ>>
    /\ ret = Lam(<<>>, <<Y("def"), Q(<<Y("z")>>), N(2)>>)
    /\ ~GlobalBinds("z")

---------------------------------------------------------------------------
(* SpecNamed: inputs that define closures under global names and call them *)
(* by name, in full, in part and from their own body                       *)

\* Inputs read in one run of the loop of SpecNamed.
MaxNamedInputs == 3

\* def {k} (\ {x y} {list x y})
DefK == S(<<Y("def"), Q(<<Y("k")>>), LamExpr(<<Y("x"), Y("y")>>, <<Y("list"), Y("x"), Y("y")>>)>>)

\* k 1,  k 1 2,  k 3 4,  (k 1) 2
CallK(a) == S(<<Y("k")>> \o a)

CallKTwice == S(<<CallK(<<N(1)>>), N(2)>>)

\* def {p} (k 1): a partly applied closure under a name of its own
DefP == S(<<Y("def"), Q(<<Y("p")>>), CallK(<<N(1)>>)>>)

\* p 2
CallP == S(<<Y("p"), N(2)>>)

\* def {f} (\ {x} {f x}): the body calls the closure by its global name
DefRec == S(<<Y("def"), Q(<<Y("f")>>), LamExpr(<<Y("x")>>, <<Y("f"), Y("x")>>)>>)

\* f 1
CallRec == S(<<Y("f"), N(1)>>)

\* def {g} {eval g}
DefG == S(<<Y("def"), Q(<<Y("g")>>), Q(<<Y("eval"), Y("g")>>)>>)

\* eval g
EvalG == S(<<Y("eval"), Y("g")>>)

NamedInputs ==
    { DefK, CallK(<<N(1)>>), CallK(<<N(1), N(2)>>), CallK(<<N(3), N(4)>>),
      CallKTwice, DefP, CallP, DefRec, CallRec, DefG, EvalG }

\* lval_eval(e, lval_read(r.output)), then the result is printed and freed
ReadNamed ==
    /\ ~IsFault(ret)
    /\ Len(aux) + Len(args) < MaxNamedInputs
    /\ \E in \in NamedInputs, ub \in UBCopy :
          LET r == lval_eval(envs, 1, in, MaxDepth, ub)
          IN  /\ args' = <<in>>
              /\ ret' = r.val
              /\ envs' = r.envs
    /\ aux' = aux \o args
    /\ UNCHANGED fn

NextNamed == ReadNamed

SpecNamed == Init /\ [][NextNamed]_vars

\* C26: the evaluation of every input, in every global environment earlier
\* inputs can have made, comes to an end and returns a Value.
C26_EvaluationReturnsValue == ~IsFault(ret)

\* Inputs whose evaluation does not re-enter a globally bound closure or
\* QExpr from its own body
EvaluationReturnsValueWithoutRecursion ==
    (Returned /\ args[1] \notin {CallRec, EvalG}) => ~IsFault(ret)


\* The closure def {k} (\ {x y} {list x y}) stores
StoredK == Lam(<<Y("x"), Y("y")>>, <<Y("list"), Y("x"), Y("y")>>)

\* The input just evaluated, with k bound before it
EvaluatedWithK(in) ==
    /\ Evaluated(in) /\ Returned
    /\ \E j \in 1..Len(aux) : aux[j] = DefK

\* C28: calls of the closure bound to k, in full or in part, leave the
\* binding of k as def made it (its formals, its body, its environment
\* without bindings), so every call gives what it gives as the first call:
\* k 1 2 is {1 2}, k 3 4 is {3 4}, (k 1) 2 is {1 2}, and k 1 is the closure
\* with x bound to 1 and y left.
C28_CallsLeaveBindingUnchanged ==
    /\ GlobalBinds("k") => GlobalValue("k") = StoredK
    /\ EvaluatedWithK(CallK(<<N(1), N(2)>>)) => ret = Q(<<N(1), N(2)>>)
    /\ EvaluatedWithK(CallK(<<N(3), N(4)>>)) => ret = Q(<<N(3), N(4)>>)
    /\ EvaluatedWithK(CallKTwice) => ret = Q(<<N(1), N(2)>>)
    /\ EvaluatedWithK(CallK(<<N(1)>>)) =>
          /\ IsLambda(ret)
          /\ ret.formals = Q(<<Y("y")>>) /\ ret.body = StoredK.body
          /\ ret.env.syms = <<"x">> /\ ret.env.vals = <<N(1)>>

C28_Witness ==
    /\ aux = <<DefK, CallK(<<N(1)>>)>>
    /\ EvaluatedWithK(CallK(<<N(3), N(4)>>))
    /\ ret = Q(<<N(3), N(4)>>)
    /\ GlobalValue("k") = StoredK

\* Every closure in v, and in the environment of a closure in v, has an
\* environment without parent
RECURSIVE ParEmpty(_)
ParEmpty(v) ==
    CASE IsLambda(v) ->
            /\ v.env.par = 0
            /\ \A j \in 1..Len(v.env.vals) : ParEmpty(v.env.vals[j])
      [] IsList(v) -> \A j \in 1..Len(v.cell) : ParEmpty(v.cell[j])
      [] OTHER -> TRUE

\* C29: between the evaluations of inputs, every closure a binding of the
\* global environment holds and the closure an evaluation returned have an
\* environment whose parent link is empty, the global environment is the
\* only environment left and it has no parent.
C29_StoredClosuresHaveNoParent ==
    /\ Len(envs) = 1 /\ envs[1].par = 0
    /\ \A j \in 1..Len(envs[1].vals) : ParEmpty(envs[1].vals[j])
    /\ ParEmpty(ret)

C29_Witness ==
    /\ aux = <<DefK, DefP>>
    /\ Evaluated(CallK(<<N(1)>>))
    /\ IsLambda(ret) /\ ret.env.syms = <<"x">> /\ ret.env.par = 0
    /\ GlobalValue("p").env.syms = <<"x">> /\ GlobalValue("p").env.par = 0

---------------------------------------------------------------------------
(* SpecRound: head q, tail q and join (head q) (tail q) evaluated for a    *)
(* QExpr q as read                                                         *)

\* Most elements of q.
MaxRoundLen == 3

RoundElems == {N(1), Y("s"), F(3, 2), Q(<<N(2)>>)}

RoundLists == {Q(c) : c \in SeqsUpTo(RoundElems, MaxRoundLen)}

HeadOf(q) == S(<<Y("head"), q>>)

TailOf(q) == S(<<Y("tail"), q>>)

JoinHeadTail(q) == S(<<Y("join"), HeadOf(q), TailOf(q)>>)

\* aux keeps q
InitRound ==
    /\ fn = "lval_eval"
    /\ aux \in RoundLists
    /\ args \in {<<HeadOf(aux)>>, <<TailOf(aux)>>, <<JoinHeadTail(aux)>>}
    /\ ret = NoVal
    /\ envs = <<GlobalEnv>>

SpecRound == InitRound /\ [][NextSexpr]_vars

\* C30: for every non-empty QExpr q, head q is the QExpr of q's first
\* element, tail q the QExpr of the other elements in order, and
\* join (head q) (tail q) is equal to q.
C30_JoinHeadTailIsIdentity ==
    (Returned /\ Len(aux.cell) > 0) =>
        /\ Evaluated(HeadOf(aux)) => ret = Q(<<aux.cell[1]>>)
        /\ Evaluated(TailOf(aux)) => ret = Q(Tail(aux.cell))
        /\ Evaluated(JoinHeadTail(aux)) => ret = aux

C30_Witness ==
    /\ Returned
    /\ aux = Q(<<Y("s"), F(3, 2), Q(<<N(2)>>)>>)
    /\ Evaluated(JoinHeadTail(aux))
    /\ ret = aux

---------------------------------------------------------------------------
(* SpecOwn: the reads and frees of lval_eval_sexpr, from the pop of f on,  *)
(* on the S-Expression v, on its first child f and on its other children,  *)
(* which lval_call receives in v as the argument list a                    *)

Rd(o) == [op |-> "read", obj |-> o]

Free(o) == [op |-> "free", obj |-> o]

\* The argument that was cell j of the argument list when the call began
Arg(j) == "a" \o ToString(j)

ArgsFrom(lo, hi) == [j \in 1..(hi - lo + 1) |-> Arg(lo + j - 1)]

\* lval_del(a) with the cells left in a: each cell is deleted, then a freed
lval_del_events(left) ==
    <<Rd("v")>> \o [j \in 1..Len(left) |-> Free(left[j])] \o <<Free("v")>>

\* lval_take(a, 0) on a list of one cell: the pop, then lval_del(a)
lval_take_events == <<Rd("v")>> \o lval_del_events(<<>>)

\* The LASSERTs head, tail, init and len share (eval has the first two):
\* each reads a, the later ones a->cell[0]; a failing one deletes a
OneQExprChecks(a, nonEmpty) ==
    LET all == ArgsFrom(1, Len(a))
    IN  IF Len(a) # 1
        THEN [ok |-> FALSE, ev |-> <<Rd("v")>> \o lval_del_events(all)]
        ELSE IF a[1].type # "QEXPR"
        THEN [ok |-> FALSE,
              ev |-> <<Rd("v"), Rd("v"), Rd(Arg(1))>> \o lval_del_events(all)]
        ELSE IF nonEmpty /\ Len(a[1].cell) = 0
        THEN [ok |-> FALSE,
              ev |-> <<Rd("v"), Rd("v"), Rd(Arg(1)), Rd("v"), Rd(Arg(1))>>
                     \o lval_del_events(all)]
        ELSE [ok |-> TRUE,
              ev |-> <<Rd("v"), Rd("v"), Rd(Arg(1))>>
                     \o (IF nonEmpty THEN <<Rd("v"), Rd(Arg(1))>> ELSE <<>>)]

\* head, tail, len, eval: after lval_take(a, 0) only v = a->cell[0] is used;
\* init: lval_pop(v, a->count-1) reads a after lval_take(a, 0)
OneQExprEvents(name, a) ==
    LET c == OneQExprChecks(a, name # "eval")
    IN  IF ~c.ok THEN c.ev
        ELSE c.ev \o lval_take_events
                  \o (IF name = "init" THEN <<Rd("v")>> ELSE <<>>)
                  \o <<Rd(Arg(1))>>

builtin_cons_events(a) ==
    LET all == ArgsFrom(1, Len(a))
    IN  IF Len(a) # 2 THEN <<Rd("v")>> \o lval_del_events(all)
        ELSE IF a[2].type # "QEXPR"
        THEN <<Rd("v"), Rd("v"), Rd(Arg(2))>> \o lval_del_events(all)
        ELSE <<Rd("v"), Rd("v"), Rd(Arg(2)), Rd("v")>>
             \o lval_take_events \o <<Rd(Arg(2))>>

\* x = lval_join(x, lval_pop(a, 0)) for the arguments k..n, then lval_del(a)
RECURSIVE JoinLoopEvents(_, _)
JoinLoopEvents(k, n) ==
    IF k > n THEN <<Rd("v")>> \o lval_del_events(<<>>)
    ELSE <<Rd("v"), Rd("v"), Rd(Arg(k)), Rd(Arg(1)), Free(Arg(k))>>
         \o JoinLoopEvents(k + 1, n)

builtin_join_events(a) ==
    LET n == Len(a)
        checked(k) == [j \in 1..(2 * k) |->
                          IF j % 2 = 1 THEN Rd("v") ELSE Rd(Arg(j \div 2))]
    IN  IF \E j \in 1..n : a[j].type # "QEXPR"
        THEN LET bad == CHOOSE j \in 1..n :
                            /\ a[j].type # "QEXPR"
                            /\ \A h \in 1..(j - 1) : a[h].type = "QEXPR"
             IN  checked(bad) \o lval_del_events(ArgsFrom(1, n))
        ELSE checked(n) \o <<Rd("v"), Rd("v")>> \o JoinLoopEvents(2, n)

\* The binding loop of lval_call on the formals fs and the arguments k..n,
\* and lval_del(a) after it
RECURSIVE BindLoopEvents(_, _, _)
BindLoopEvents(fs, k, n) ==
    IF k > n THEN <<Rd("v")>> \o lval_del_events(<<>>) \o <<Rd("f")>>
    ELSE IF Len(fs) = 0
    THEN <<Rd("v"), Rd("f")>> \o lval_del_events(ArgsFrom(k, n))
    ELSE IF fs[1].sym = "&"
    THEN IF Len(fs) # 2
         THEN <<Rd("v"), Rd("f"), Rd("f")>> \o lval_del_events(ArgsFrom(k, n))
         ELSE <<Rd("v"), Rd("f"), Rd("f"), Rd("v")>>
              \o [j \in 1..(n - k + 1) |-> Rd(Arg(k + j - 1))]
              \o lval_del_events(ArgsFrom(k, n)) \o <<Rd("f")>>
    ELSE <<Rd("v"), Rd("f"), Rd("v"), Rd(Arg(k)), Free(Arg(k))>>
         \o BindLoopEvents(Tail(fs), k + 1, n)

lval_call_events(f, a) ==
    IF IsBuiltin(f)
    THEN <<Rd("f")>> \o
         CASE f.builtin = "list" -> <<Rd("v")>>
           [] f.builtin = "cons" -> builtin_cons_events(a)
           [] f.builtin = "join" -> builtin_join_events(a)
           [] OTHER -> OneQExprEvents(f.builtin, a)
    ELSE <<Rd("f"), Rd("v"), Rd("f")>> \o BindLoopEvents(f.formals.cell, 1, Len(a))

\* f = lval_pop(v, 0); result = lval_call(e, f, v); lval_del(f)
lval_eval_sexpr_events(f, a) ==
    <<Rd("v"), Rd("v"), Rd("f")>> \o lval_call_events(f, a) \o <<Free("f")>>

OwnClosures ==
    { Lam(<<Y("x"), Y("y")>>, <<Y("list"), Y("x"), Y("y")>>),
      Lam(<<Y("x"), Y("&"), Y("xs")>>, <<Y("xs")>>),
      Lam(<<Y("x"), Y("&")>>, <<Y("x")>>) }

OwnCallees == {lval_fun(name) : name \in ListBuiltins8} \cup OwnClosures

\* args holds the evaluated children of v: f, then the arguments
InitOwn ==
    /\ fn = "lval_eval_sexpr"
    /\ args \in {<<f>> \o a : f \in OwnCallees, a \in ListArgs}
    /\ ret = NoVal
    /\ envs = <<GlobalEnv>>
    /\ aux = <<>>

\* lval_eval_sexpr from the pop of f to its return; aux takes the events
CallOwn ==
    /\ ret = NoVal
    /\ \E ub \in UBList :
          LET r == lval_call(envs, 1, Head(args), Tail(args), MaxDepth - 1, ub)
          IN  ret' = r.val /\ envs' = r.envs
    /\ aux' = lval_eval_sexpr_events(Head(args), Tail(args))
    /\ UNCHANGED <<fn, args>>

NextOwn == CallOwn

SpecOwn == InitOwn /\ [][NextOwn]_vars

\* An object is read or freed after it was freed
UseAfterFree(ev) ==
    \E h, j \in 1..Len(ev) :
        h < j /\ ev[h].op = "free" /\ ev[j].obj = ev[h].obj

\* C27: no Value is freed twice or read after it was freed: once
\* lval_take has deleted the argument list, no step of head, tail, init,
\* len, cons, eval, join or a closure call reads it.
C27_NoUseAfterFree == ~UseAfterFree(aux)

\* The same for every call but init of one non-empty QExpr
NoUseAfterFreeButInit ==
    (Head(args) = lval_fun("init") /\ OneQExprChecks(Tail(args), TRUE).ok)
    \/ ~UseAfterFree(aux)

=============================================================================
